---- MODULE Spec2Model ----
(***************************************************************************)
(* Model of scripts/validate-skills-ref.py: the frontmatter parser         *)
(* (_parse_frontmatter), the manual lint (_manual_lint) and main.          *)
(* Strings are sequences of one-character strings, so that strip, split,   *)
(* substring search and the two regular expressions are computed.          *)
(***************************************************************************)
EXTENDS Integers, Sequences, FiniteSets, TLC

VARIABLES
    pc,             \* position in main: "start", "validated", "linted", "reported", "done"
    text,           \* content of SKILL.md (<<>> when the file does not exist)
    root_name,      \* repo_root.name
    fs,             \* the paths, relative to repo_root, that exist
    dirs,           \* those of fs that are directories
    returncode,     \* result.returncode of the agentskills subprocess
    skill_lines,    \* _manual_lint's local lines: text.splitlines()
    frontmatter,    \* _manual_lint's local: the parsed header
    roles,          \* _manual_lint's local: the roles listed in the roles section
    manual_errors,  \* main's local: the report of _manual_lint
    stderr,         \* what main printed to sys.stderr
    exit_status     \* main's return value

vars == <<pc, text, root_name, fs, dirs, returncode, skill_lines, frontmatter, roles,
          manual_errors, stderr, exit_status>>

----------------------------------------------------------------------------
(* String literals of the script *)

Delim == <<"-", "-", "-">>
NameKey == <<"n", "a", "m", "e">>
RolesHeading == <<"#", "#", "#", " ", "A", "v", "a", "i", "l", "a", "b", "l", "e", " ", "R", "o", "l", "e", "s">>
HeadingPrefix == <<"#", "#", "#", " ">>
DeprecatedPath == <<"u", "t", "i", "l", "i", "t", "i", "e", "s", "/", "c", "o", "m", "m", "o", "n", "-", "r", "o", "l", "e", "s">>
HowToName == <<"d", "e", "l", "e", "g", "a", "t", "e", ".", "h", "o", "w", "-", "t", "o", ".", "m", "d">>
RefPrefix == <<"r", "e", "f", "e", "r", "e", "n", "c", "e", "s", "/">>
CommonRoles == <<"c", "o", "m", "m", "o", "n", "-", "r", "o", "l", "e", "s">>
MdSuffix == <<".", "m", "d">>
SkillName == <<"S", "K", "I", "L", "L", ".", "m", "d">>
\* single characters; the backtick, quote, tab and line-break characters are written by name
Sep == ":"
Tick == "BT"
DQuote == "DQ"
SQuote == "SQ"
Newline == "LF"
Tab == "TAB"
Whitespace == {" ", Tab, Newline}

MaxSkillLines == 500

----------------------------------------------------------------------------
(* str and pathlib primitives *)

Min(S) == CHOOSE x \in S : \A y \in S : x <= y
Max(S) == CHOOSE x \in S : \A y \in S : x >= y

\* s.strip(chars): every leading and trailing character of the set is removed
stripChars(s, chars) ==
    LET keep == {i \in 1..Len(s) : s[i] \notin chars}
    IN  IF keep = {} THEN <<>> ELSE SubSeq(s, Min(keep), Max(keep))

\* s.strip()
strip(s) == stripChars(s, Whitespace)

\* prefix-test s.startswith(p)
startswith(s, p) == Len(s) >= Len(p) /\ SubSeq(s, 1, Len(p)) = p

\* p in s
contains(s, p) ==
    \E i \in 1..(Len(s) - Len(p) + 1) : SubSeq(s, i, i + Len(p) - 1) = p

\* s.split(c, 1) of a string that contains c: the parts around the first c
split1(s, c) ==
    LET i == Min({k \in 1..Len(s) : s[k] = c})
    IN  <<SubSeq(s, 1, i - 1), SubSeq(s, i + 1, Len(s))>>

\* text.splitlines(): a line ends at each line break; a trailing break opens no line.
\* The scan over the characters lo..hi, from the state st = [lines, start], is
\* evaluated by halves, the left half before the right one (the loops below too),
\* which bounds the depth of evaluation.
SplitStep(s, st, i) ==
    IF s[i] = Newline
    THEN [lines |-> Append(st.lines, SubSeq(s, st.start, i - 1)), start |-> i + 1]
    ELSE st

RECURSIVE SplitLoop(_, _, _, _)
SplitLoop(s, lo, hi, st) ==
    IF lo > hi THEN st
    ELSE IF lo = hi THEN SplitStep(s, st, lo)
    ELSE LET mid == (lo + hi) \div 2
             left == SplitLoop(s, lo, mid, st)
         IN  IF left.start > 0 THEN SplitLoop(s, mid + 1, hi, left) ELSE left

splitlines(s) ==
    LET st == SplitLoop(s, 1, Len(s), [lines |-> <<>>, start |-> 1])
    IN  IF st.start > Len(s) THEN st.lines
        ELSE Append(st.lines, SubSeq(s, st.start, Len(s)))

\* re.findall of a backtick, the group (prefix, then one or more characters that are
\* no backtick), a backtick, in s from position p on: leftmost matches, not
\* overlapping; the group runs to the first backtick after the opening one
RECURSIVE FindQuoted(_, _, _)
FindQuoted(s, p, prefix) ==
    LET opens == {i \in p..Len(s) : s[i] = Tick}
    IN  IF opens = {} THEN <<>>
        ELSE LET i == Min(opens)
                 closes == {j \in (i + 1)..Len(s) : s[j] = Tick}
             IN  IF closes = {} THEN <<>>
                 ELSE LET j == Min(closes)
                      IN  IF /\ j >= i + Len(prefix) + 2
                             /\ SubSeq(s, i + 1, i + Len(prefix)) = prefix
                          THEN <<SubSeq(s, i + 1, j - 1)>> \o FindQuoted(s, j + 1, prefix)
                          ELSE FindQuoted(s, i + 1, prefix)

findall_quoted(s) == FindQuoted(s, 1, <<>>)
findall_refs(s) == FindQuoted(s, 1, RefPrefix)

\* repo_root / a / b
joinpath(a, b) == a \o <<"/">> \o b

exists(p) == p \in fs
is_dir(p) == p \in dirs

----------------------------------------------------------------------------
(* dict[str, str] as a function on its keys; dict.get gives <<>> for None *)

EmptyDict == [k \in {} |-> <<>>]
DictPut(d, k, v) == [x \in (DOMAIN d) \cup {k} |-> IF x = k THEN v ELSE d[x]]
DictGet(d, k) == IF k \in DOMAIN d THEN <<d[k]>> ELSE <<>>

----------------------------------------------------------------------------
(* _parse_frontmatter *)

\* value.strip(), then .strip of the double quote, then .strip of the single quote
unquote(value) == stripChars(stripChars(strip(value), {DQuote}), {SQuote})

\* the loop body without its break: the delimiter is passed like any line without
\* a separator
FrontmatterStepNoBreak(st, line) ==
    IF \A k \in 1..Len(line) : line[k] # Sep THEN st
    ELSE LET kv == split1(line, Sep)
         IN  [st EXCEPT !.frontmatter = DictPut(@, strip(kv[1]), unquote(kv[2]))]

\* one iteration of the for loop over lines[1:]; st = [frontmatter, stop], stop
\* once the loop has hit its break
FrontmatterStep(st, line) ==
    IF st.stop THEN st
    ELSE IF strip(line) = Delim THEN [st EXCEPT !.stop = TRUE]
    ELSE IF \A k \in 1..Len(line) : line[k] # Sep THEN st
    ELSE LET kv == split1(line, Sep)
         IN  [st EXCEPT !.frontmatter = DictPut(@, strip(kv[1]), unquote(kv[2]))]

RECURSIVE FrontmatterLoop(_, _, _, _)
FrontmatterLoop(lines, lo, hi, st) ==
    IF lo > hi THEN st
    ELSE IF lo = hi THEN FrontmatterStep(st, lines[lo])
    ELSE LET mid == (lo + hi) \div 2
             left == FrontmatterLoop(lines, lo, mid, st)
         IN  IF left.stop THEN left ELSE FrontmatterLoop(lines, mid + 1, hi, left)

\* not (not lines or lines[0].strip() != "---")
HasFrontmatter(lines) == lines # <<>> /\ strip(lines[1]) = Delim

\* the parser deciding on the first non-empty line: leading empty lines are dropped
_parse_frontmatter_skip_blank(t) ==
    LET all == splitlines(t)
        present == {i \in 1..Len(all) : all[i] # <<>>}
        lines == IF present = {} THEN <<>> ELSE SubSeq(all, Min(present), Len(all))
    IN  IF ~HasFrontmatter(lines) THEN EmptyDict
        ELSE FrontmatterLoop(lines, 2, Len(lines),
                             [frontmatter |-> EmptyDict, stop |-> FALSE]).frontmatter

_parse_frontmatter(t) ==
    LET lines == splitlines(t)
    IN  IF ~HasFrontmatter(lines) THEN EmptyDict
        ELSE FrontmatterLoop(lines, 2, Len(lines),
                             [frontmatter |-> EmptyDict, stop |-> FALSE]).frontmatter

----------------------------------------------------------------------------
(* _manual_lint *)

\* An error message: the text of the f-string is its kind and its arguments
Error(kind, arg, arg2, n) == [kind |-> kind, arg |-> arg, arg2 |-> arg2, n |-> n]
MissingError == Error("SKILL.md is missing.", <<>>, <<>>, 0)
LengthError(n) == Error("SKILL.md should be 500 lines or fewer (found n).", <<>>, <<>>, n)
DeprecatedError == Error("SKILL.md references utilities/common-roles/", <<>>, <<>>, 0)
NameError(name, folder) == Error("Frontmatter name must match folder name", name, folder, 0)
DirError == Error("Missing common-roles/ directory.", <<>>, <<>>, 0)
RoleError(role) == Error("Role listed in SKILL.md missing", role, <<>>, 0)
RefError(ref) == Error("Referenced file not found", ref, <<>>, 0)
HowToError == Error("SKILL.md references delegate.how-to.md", <<>>, <<>>, 0)

\* the loop body with the end-of-section test first: a repeated roles heading ends
\* the section
RolesStepAnyHeading(st, line) ==
    IF st.stop THEN st
    ELSE IF st.in_roles_table /\ startswith(line, HeadingPrefix)
         THEN [st EXCEPT !.stop = TRUE]
    ELSE IF strip(line) = RolesHeading THEN [st EXCEPT !.in_roles_table = TRUE]
    ELSE IF st.in_roles_table THEN [st EXCEPT !.roles = @ \o findall_quoted(line)]
    ELSE st

\* one iteration of the loop that collects the roles; st = [roles, in_roles_table,
\* stop], stop once the loop has hit its break
RolesStep(st, line) ==
    IF st.stop THEN st
    ELSE IF strip(line) = RolesHeading THEN [st EXCEPT !.in_roles_table = TRUE]
    ELSE IF st.in_roles_table /\ startswith(line, HeadingPrefix)
         THEN [st EXCEPT !.stop = TRUE]
    ELSE IF st.in_roles_table THEN [st EXCEPT !.roles = @ \o findall_quoted(line)]
    ELSE st

RECURSIVE RolesLoop(_, _, _, _)
RolesLoop(lines, lo, hi, st) ==
    IF lo > hi THEN st
    ELSE IF lo = hi THEN RolesStep(st, lines[lo])
    ELSE LET mid == (lo + hi) \div 2
             left == RolesLoop(lines, lo, mid, st)
         IN  IF left.stop THEN left ELSE RolesLoop(lines, mid + 1, hi, left)

ListedRoles(t) ==
    LET lines == splitlines(t)
    IN  RolesLoop(lines, 1, Len(lines),
                  [roles |-> <<>>, in_roles_table |-> FALSE, stop |-> FALSE]).roles

\* set(re.findall(...)) of the references/ paths
RefSet(t) == LET found == findall_refs(t) IN {found[i] : i \in 1..Len(found)}

\* the orders in which a for loop may visit a set
Orderings(S) ==
    {o \in [1..Cardinality(S) -> S] : \A x \in S : \E i \in 1..Cardinality(S) : o[i] = x}

\* the loop over the references/ paths without set(): every occurrence, in text order
RefOrdersList(t) == {findall_refs(t)}

\* for ref in set(re.findall(...)): each distinct path once, in any order
RefOrders(t) == Orderings(RefSet(t))

LengthCheck(lines) ==
    IF Len(lines) > MaxSkillLines THEN <<LengthError(Len(lines))>> ELSE <<>>

DeprecatedCheck(t) ==
    IF contains(t, DeprecatedPath) THEN <<DeprecatedError>> ELSE <<>>

NameCheck(fm) ==
    LET skill_name == DictGet(fm, NameKey)
    IN  IF skill_name # <<>> /\ skill_name[1] # <<>> /\ skill_name[1] # root_name
        THEN <<NameError(skill_name[1], root_name)>> ELSE <<>>

DirCheck == IF ~is_dir(CommonRoles) THEN <<DirError>> ELSE <<>>

RoleFile(role) == joinpath(CommonRoles, role \o MdSuffix)

\* the loop over the roles leaving at the first missing one
RoleCheckFirst(rs) ==
    LET missing(role) == ~exists(RoleFile(role))
        gone == SelectSeq(rs, missing)
    IN  IF gone = <<>> THEN <<>> ELSE <<RoleError(gone[1])>>

RoleCheck(rs) ==
    LET missing(role) == ~exists(RoleFile(role))
        gone == SelectSeq(rs, missing)
    IN  [i \in 1..Len(gone) |-> RoleError(gone[i])]

RefCheck(refs) ==
    LET missing(ref) == ~exists(ref)
        gone == SelectSeq(refs, missing)
    IN  [i \in 1..Len(gone) |-> RefError(gone[i])]

HowToCheck(t) ==
    IF contains(t, HowToName) /\ ~exists(HowToName) THEN <<HowToError>> ELSE <<>>

\* the lint without the return that gates it on SKILL.md
_manual_lint_ungated(t, order) ==
    (IF ~exists(SkillName) THEN <<MissingError>> ELSE <<>>)
    \o LengthCheck(splitlines(t))
    \o DeprecatedCheck(t)
    \o NameCheck(_parse_frontmatter(t))
    \o DirCheck
    \o RoleCheck(ListedRoles(t))
    \o RefCheck(order)
    \o HowToCheck(t)

\* the lint returning at the first error it finds
_manual_lint_first_error(t, order) ==
    LET all == _manual_lint_ungated(t, order)
    IN  IF all = <<>> THEN <<>> ELSE <<all[1]>>

\* order: the order in which the for loop visits the set of references/ paths
_manual_lint(t, order) ==
    IF ~exists(SkillName) THEN <<MissingError>>
    ELSE LengthCheck(splitlines(t))
         \o DeprecatedCheck(t)
         \o NameCheck(_parse_frontmatter(t))
         \o DirCheck
         \o RoleCheck(ListedRoles(t))
         \o RefCheck(order)
         \o HowToCheck(t)

----------------------------------------------------------------------------
(* main *)

ReturnCodes == {0, 2}

\* subprocess.run of agentskills validate: only its return code is kept
RunValidator ==
    /\ pc = "start"
    /\ \E rc \in ReturnCodes : returncode' = rc
    /\ pc' = "validated"
    /\ UNCHANGED <<text, root_name, fs, dirs, skill_lines, frontmatter, roles,
                   manual_errors, stderr, exit_status>>

\* manual_errors = _manual_lint(repo_root)
ManualLint ==
    /\ pc = "validated"
    /\ \E order \in RefOrders(text) : manual_errors' = _manual_lint(text, order)
    /\ skill_lines' = IF exists(SkillName) THEN splitlines(text) ELSE skill_lines
    /\ frontmatter' = IF exists(SkillName) THEN _parse_frontmatter(text) ELSE frontmatter
    /\ roles' = IF exists(SkillName) THEN ListedRoles(text) ELSE roles
    /\ pc' = "linted"
    /\ UNCHANGED <<text, root_name, fs, dirs, returncode, stderr, exit_status>>

\* if manual_errors: print the header and one line per error to sys.stderr
Report ==
    /\ pc = "linted"
    /\ stderr' = IF manual_errors # <<>>
                 THEN <<Error("Manual lint failures:", <<>>, <<>>, 0)>> \o manual_errors
                 ELSE <<>>
    /\ pc' = "reported"
    /\ UNCHANGED <<text, root_name, fs, dirs, returncode, skill_lines, frontmatter,
                   roles, manual_errors, exit_status>>

\* the return with "and" written for "or"
ExitStatusAnd(rc, errors) == IF rc # 0 /\ errors # <<>> THEN 1 ELSE 0

ExitStatus(rc, errors) == IF rc # 0 \/ errors # <<>> THEN 1 ELSE 0

\* return 1 if result.returncode != 0 or manual_errors else 0
Return ==
    /\ pc = "reported"
    /\ exit_status' = ExitStatus(returncode, manual_errors)
    /\ pc' = "done"
    /\ UNCHANGED <<text, root_name, fs, dirs, returncode, skill_lines, frontmatter,
                   roles, manual_errors, stderr>>

Next == RunValidator \/ ManualLint \/ Report \/ Return

----------------------------------------------------------------------------
(* The inputs: the content of SKILL.md, the folder name and the file tree *)

MaxVal == 3       \* characters of a frontmatter value
MaxBody == 3      \* lines of a document body

\* the sequences over S of length at most n
RECURSIVE SeqsUpTo(_, _)
SeqsUpTo(S, n) ==
    IF n = 0 THEN {<<>>}
    ELSE LET shorter == SeqsUpTo(S, n - 1)
         IN  shorter \cup {Append(q, x) : q \in shorter, x \in S}

\* "\n".join(lines)
RECURSIVE Join(_)
Join(lines) ==
    IF lines = <<>> THEN <<>>
    ELSE IF Len(lines) = 1 THEN lines[1]
    ELSE lines[1] \o <<Newline>> \o Join(Tail(lines))

Repeat(c, n) == [i \in 1..n |-> c]

RoleA == <<"a">>
RoleB == <<"b">>
RefA == RefPrefix \o <<"a">>
Quoted(s) == <<Tick>> \o s \o <<Tick>>
OtherHeading == HeadingPrefix \o <<"f">>
NameLine(v) == NameKey \o <<Sep>> \o v

\* header documents: lines before the name line, the name line, lines after it
HeaderBefore ==
    {<<>>, <<Delim>>, <<<<>>, Delim>>, <<<<" ">> \o Delim \o <<" ">>>>, <<Delim, <<"f">>>>,
     <<Delim, NameLine(<<"g">>)>>, <<Delim, Delim>>, <<<<"f">>>>}
HeaderAfter == {<<>>, <<Delim>>, <<Delim, NameLine(<<"g">>)>>}
Values == SeqsUpTo({DQuote, SQuote, "f"}, MaxVal)
NameLines ==
    {NameLine(v) : v \in Values}
    \cup {NameLine(<<" ">> \o v \o <<" ">>) : v \in SeqsUpTo({DQuote, SQuote, "f"}, 2)}
    \cup {NameLine(<<"f", Sep, "f">>), <<" ">> \o NameKey \o <<" ", Sep, " ", "f">>,
          <<"f">>}
HeaderTexts ==
    {Join(b \o <<l>> \o a) : b \in HeaderBefore, l \in NameLines, a \in HeaderAfter}

\* body documents: up to MaxBody lines around the roles section
BodyLines ==
    {RolesHeading, <<" ">> \o RolesHeading, OtherHeading, <<" ">> \o OtherHeading,
     Quoted(RoleA), Quoted(RoleB) \o <<" ">> \o Quoted(RoleA),
     Quoted(RefA) \o <<"f">> \o Quoted(RefA)}
BodyTexts == {Join(ls) : ls \in SeqsUpTo(BodyLines, MaxBody)}

\* long documents: n line breaks, then a last line
LongTails ==
    {<<>>, DeprecatedPath, Quoted(HowToName), DeprecatedPath \o <<Newline>> \o HowToName}
LongTexts ==
    {Repeat(Newline, n) \o t : n \in {0, MaxSkillLines - 1, MaxSkillLines}, t \in LongTails}

\* file trees: [fs |-> the paths that exist, dirs |-> the directories among them]
Tree(files, ds) == [fs |-> files \cup ds, dirs |-> ds]
RoleTrees ==
    {Tree({SkillName}, {}), Tree({SkillName, RefA, RoleFile(RoleA)}, {CommonRoles})}
    \cup {Tree({SkillName} \cup {RoleFile(r) : r \in present}, {CommonRoles}) :
            present \in SUBSET {RoleA, RoleB}}
PlainTrees ==
    {Tree(files \cup cr.f, cr.d) :
        files \in SUBSET {SkillName, HowToName},
        cr \in {[f |-> {}, d |-> {}], [f |-> {CommonRoles}, d |-> {}],
                [f |-> {}, d |-> {CommonRoles}]}}

FolderNames == {<<"f">>, <<"f", "f">>}

InitHeader ==
    /\ text \in HeaderTexts
    /\ root_name \in FolderNames
    /\ fs = {SkillName, CommonRoles}
    /\ dirs = {CommonRoles}

InitBody ==
    /\ text \in BodyTexts
    /\ root_name = <<"f">>
    /\ \E tree \in RoleTrees : fs = tree.fs /\ dirs = tree.dirs

InitLong ==
    /\ \E tree \in PlainTrees : fs = tree.fs /\ dirs = tree.dirs
    /\ text \in IF SkillName \in fs THEN LongTexts ELSE {<<>>}
    /\ root_name = <<"f">>

Init ==
    /\ pc = "start"
    /\ InitHeader \/ InitBody \/ InitLong
    /\ returncode = 0
    /\ skill_lines = <<>>
    /\ frontmatter = EmptyDict
    /\ roles = <<>>
    /\ manual_errors = <<>>
    /\ stderr = <<>>
    /\ exit_status = -1

Spec == Init /\ [][Next]_vars

----------------------------------------------------------------------------
(* Properties *)

Linted == pc = "linted"
HasSkill == exists(SkillName)
Lines == skill_lines
Count(q, e) == Cardinality({i \in 1..Len(q) : q[i] = e})
Elems(q) == {q[i] : i \in 1..Len(q)}

\* C1: main returns 0 exactly when the validator's return code is 0 and the manual
\* report is empty, returns 1 in every other case, and returns nothing else.
C1_ExitStatus ==
    pc = "done" =>
        /\ exit_status \in {0, 1}
        /\ exit_status = 0 <=> (returncode = 0 /\ manual_errors = <<>>)

C1_Witness == pc = "done" /\ exit_status = 1 /\ returncode = 0 /\ manual_errors # <<>>

\* C2: when SKILL.md does not exist the report is the manifest-missing error alone,
\* whatever else the file tree holds.
C2_MissingManifest == (Linted /\ ~HasSkill) => manual_errors = <<MissingError>>

C2_Witness ==
    /\ Linted /\ ~HasSkill /\ ~is_dir(CommonRoles) /\ exists(HowToName)
    /\ manual_errors = <<MissingError>>

\* C7: each distinct references/ path found between backticks has one
\* referenced-file-not-found error when it does not exist and none when it exists,
\* however often it occurs; no other path has such an error.
C7_RefsDeduplicated ==
    (Linted /\ HasSkill) =>
        LET found == Elems(findall_refs(text))
        IN  /\ \A ref \in found :
                  Count(manual_errors, RefError(ref)) = IF exists(ref) THEN 0 ELSE 1
            /\ \A i \in 1..Len(manual_errors) :
                  manual_errors[i].kind = RefError(<<>>).kind
                      => manual_errors[i].arg \in found

C7_Witness ==
    /\ Linted /\ HasSkill
    /\ Count(findall_refs(text), RefA) = 2
    /\ ~exists(RefA)
    /\ Count(manual_errors, RefError(RefA)) = 1

(* The header block, stated on the lines rather than by the loop *)

IsDelim(line) == strip(line) = Delim
HasSep(line) == \E k \in 1..Len(line) : line[k] = Sep
KeyOf(line) == strip(split1(line, Sep)[1])
RawValueOf(line) == split1(line, Sep)[2]
\* the first delimiter line at or after from, or one past the last line
BlockEnd(lines, from) ==
    LET ds == {i \in from..Len(lines) : IsDelim(lines[i])}
    IN  IF ds = {} THEN Len(lines) + 1 ELSE Min(ds)
\* the lines with a separator between from and the delimiter that ends the block
KeyLines(lines, from) == {i \in from..(BlockEnd(lines, from) - 1) : HasSep(lines[i])}
\* the line that decides the value of the key of line i: the last one with that key
Decides(lines, from, i) ==
    /\ i \in KeyLines(lines, from)
    /\ \A j \in KeyLines(lines, from) : KeyOf(lines[j]) = KeyOf(lines[i]) => j <= i

\* C3 as stated: the parser decides on the first non-empty line; if that line is
\* not exactly the delimiter the header is empty, otherwise the lines after it give
\* the keys of the header.
C3_FirstNonEmptyLine ==
    (Linted /\ HasSkill) =>
        LET present == {i \in 1..Len(Lines) : Lines[i] # <<>>}
        IN  IF present = {} \/ Lines[Min(present)] # Delim
            THEN DOMAIN frontmatter = {}
            ELSE \A i \in KeyLines(Lines, Min(present) + 1) :
                     KeyOf(Lines[i]) \in DOMAIN frontmatter

\* C3 amended: the parser decides on the first line; if there is no line or the
\* first line, trimmed, is not the delimiter the header is empty (also when only
\* blank lines precede a delimiter), otherwise every line with a separator after it,
\* up to the next delimiter, gives a key of the header.
C3_FirstLine ==
    (Linted /\ HasSkill) =>
        IF Lines = <<>> \/ strip(Lines[1]) # Delim
        THEN DOMAIN frontmatter = {}
        ELSE \A i \in KeyLines(Lines, 2) : KeyOf(Lines[i]) \in DOMAIN frontmatter

C3_Witness ==
    /\ Linted /\ HasSkill
    /\ Len(Lines) = 3 /\ Lines[1] = <<>> /\ Lines[2] = Delim /\ HasSep(Lines[3])
    /\ DOMAIN frontmatter = {}

\* C10: when the document opens with the delimiter, the keys of the header are
\* those of the lines with a separator between the opening delimiter and the next
\* delimiter (or the end), each with the value of its last such line; a line at or
\* after the second delimiter, or without a separator, gives no key.
C10_ScanStopsAtDelimiter ==
    (Linted /\ HasSkill /\ HasFrontmatter(Lines)) =>
        /\ DOMAIN frontmatter \subseteq {KeyOf(Lines[i]) : i \in KeyLines(Lines, 2)}
        /\ \A i \in KeyLines(Lines, 2) :
              Decides(Lines, 2, i) =>
                  /\ KeyOf(Lines[i]) \in DOMAIN frontmatter
                  /\ frontmatter[KeyOf(Lines[i])] = unquote(RawValueOf(Lines[i]))

C10_Witness ==
    /\ Linted /\ HasSkill /\ HasFrontmatter(Lines)
    /\ \E i \in 1..Len(Lines) :
          /\ i > BlockEnd(Lines, 2)
          /\ HasSep(Lines[i])
          /\ KeyOf(Lines[i]) \notin DOMAIN frontmatter
    /\ \E i \in 2..(BlockEnd(Lines, 2) - 1) : ~HasSep(Lines[i])

\* one layer of matching quotes: a value that starts and ends with the same quote
\* character loses that pair, any other value is kept
StripOneLayer(v) ==
    IF Len(v) >= 2 /\ v[1] = v[Len(v)] /\ v[1] \in {DQuote, SQuote}
    THEN SubSeq(v, 2, Len(v) - 1)
    ELSE v

\* C4 as stated: the value of a key is the part after the first separator of its
\* line, trimmed, less one layer of matching single or double quotes; inner layers
\* and unmatched or mismatched quote characters stay in the value.
C4_OneLayerOfMatchingQuotes ==
    (Linted /\ HasSkill /\ HasFrontmatter(Lines)) =>
        \A i \in KeyLines(Lines, 2) :
            Decides(Lines, 2, i) =>
                /\ KeyOf(Lines[i]) \in DOMAIN frontmatter
                /\ frontmatter[KeyOf(Lines[i])] = StripOneLayer(strip(RawValueOf(Lines[i])))

\* C5 as stated: with the manifest present, the report holds one name-mismatch
\* error when the header declares a name that differs from the folder name,
\* whatever the declared value, and none when the names agree or none is declared.
C5_NameMismatch ==
    (Linted /\ HasSkill) =>
        Cardinality({i \in 1..Len(manual_errors) :
                        manual_errors[i].kind = NameError(<<>>, <<>>).kind})
          = IF NameKey \in DOMAIN frontmatter /\ frontmatter[NameKey] # root_name
            THEN 1 ELSE 0

\* C6 as stated: each role listed in the roles section has exactly one missing-role
\* error when its file is not in common-roles/ and none when it is.
C6_OneErrorPerRole ==
    (Linted /\ HasSkill) =>
        \A role \in Elems(roles) :
            Count(manual_errors, RoleError(role))
              = IF exists(RoleFile(role)) THEN 0 ELSE 1

\* C6 amended: each listing of a role in the roles section has one missing-role
\* error when the role's file is not in common-roles/ (a role listed k times and
\* missing has k errors) and none when it is; no other role has such an error.
C6_OneErrorPerListing ==
    (Linted /\ HasSkill) =>
        /\ \A role \in Elems(roles) :
              Count(manual_errors, RoleError(role))
                = IF exists(RoleFile(role)) THEN 0 ELSE Count(roles, role)
        /\ \A i \in 1..Len(manual_errors) :
              manual_errors[i].kind = RoleError(<<>>).kind
                  => manual_errors[i].arg \in Elems(roles)

C6_Witness ==
    /\ Linted /\ HasSkill
    /\ Count(roles, RoleA) = 2 /\ Count(roles, RoleB) = 1
    /\ ~exists(RoleFile(RoleA)) /\ exists(RoleFile(RoleB))
    /\ Count(manual_errors, RoleError(RoleA)) = 2
    /\ Count(manual_errors, RoleError(RoleB)) = 0

(* The roles section, stated on the lines rather than by the loop *)

IsRolesHeading(line) == strip(line) = RolesHeading
\* the first roles heading, or one past the last line
SectionStart(lines) ==
    LET hs == {i \in 1..Len(lines) : IsRolesHeading(lines[i])}
    IN  IF hs = {} THEN Len(lines) + 1 ELSE Min(hs)
\* the tokens of the lines lo..hi, in order
RECURSIVE TokensOf(_, _, _)
TokensOf(lines, lo, hi) ==
    IF lo > hi THEN <<>> ELSE findall_quoted(lines[lo]) \o TokensOf(lines, lo + 1, hi)

\* C9 as stated: the roles are the backtick-quoted tokens of the lines after the
\* roles heading and before the next line that starts a heading of the same level,
\* a repeated roles heading included.
C9_SectionEndsAtNextHeading ==
    (Linted /\ HasSkill) =>
        LET start == SectionStart(Lines)
            ends == {i \in (start + 1)..Len(Lines) : startswith(Lines[i], HeadingPrefix)}
            end == IF ends = {} THEN Len(Lines) + 1 ELSE Min(ends)
        IN  roles = TokensOf(Lines, start + 1, end - 1)

\* C9 amended: the roles are the backtick-quoted tokens of the lines after the first
\* roles heading and before the next line that starts with the heading prefix and
\* is not itself a roles heading; a repeated roles heading is skipped and does not
\* end the section. Tokens before the first roles heading, and on or after the
\* line that ends the section, are no roles.
C9_SectionEndsAtOtherHeading ==
    (Linted /\ HasSkill) =>
        LET start == SectionStart(Lines)
            ends == {i \in (start + 1)..Len(Lines) :
                        startswith(Lines[i], HeadingPrefix) /\ ~IsRolesHeading(Lines[i])}
            end == IF ends = {} THEN Len(Lines) + 1 ELSE Min(ends)
        IN  roles = TokensOf(Lines, start + 1, end - 1)

C9_Witness ==
    /\ Linted /\ HasSkill
    /\ Lines = <<RolesHeading, RolesHeading, Quoted(RoleA)>>
    /\ roles = <<RoleA>>

\* C8: with the manifest present every rule is evaluated and reports into the same
\* list: each rule's error is in the report exactly when that rule's own condition
\* holds, whatever the other rules report.
C8_RulesIndependent ==
    (Linted /\ HasSkill) =>
        LET errs == Elems(manual_errors)
            kinds == {e.kind : e \in errs}
            skill_name == DictGet(frontmatter, NameKey)
        IN  /\ (LengthError(Len(Lines)) \in errs) <=> (Len(Lines) > MaxSkillLines)
            /\ (LengthError(0).kind \in kinds) => (LengthError(Len(Lines)) \in errs)
            /\ (DeprecatedError \in errs) <=> contains(text, DeprecatedPath)
            /\ (NameError(<<>>, <<>>).kind \in kinds) <=>
                   (skill_name # <<>> /\ skill_name[1] # <<>> /\ skill_name[1] # root_name)
            /\ (DirError \in errs) <=> ~is_dir(CommonRoles)
            /\ \A role \in Elems(roles) :
                   (RoleError(role) \in errs) <=> ~exists(RoleFile(role))
            /\ \A ref \in RefSet(text) : (RefError(ref) \in errs) <=> ~exists(ref)
            /\ (HowToError \in errs) <=> (contains(text, HowToName) /\ ~exists(HowToName))

C8_Witness ==
    /\ Linted /\ HasSkill
    /\ Elems(manual_errors) =
           {LengthError(MaxSkillLines + 1), DeprecatedError, DirError, HowToError}

====
